---- MODULE Spec2Model ----
(***************************************************************************)
(* logdash-io/node-sdk: the RequestQueue (src/src/queue/RequestQueue.ts),  *)
(* i.e. the batching buffer, its periodic timer, flush()/destroy() and the *)
(* send-and-retry task of every batch; the HttpTransport behind it (same   *)
(* file) and the Logdash facade in front of it (src/src/Logdash.ts and     *)
(* the second Logdash class of src/unnamed/part_000).                      *)
(*                                                                         *)
(* The host runtime is single threaded: every step below is one callback   *)
(* or one synchronous call run to completion (add, flush's synchronous     *)
(* part, destroy, a timer callback, the continuation of sendWithRetry      *)
(* after an await, a promise reaction).                                    *)
(***************************************************************************)
EXTENDS Integers, Sequences, FiniteSets, TLC

\* ------------------------------------------------------------------ bounds
MaxAdds == 3          \* items accepted by add() in one run
MaxFlushes == 1       \* flush() calls pending at the same time
MaxLogs == 2          \* items a Logdash instance hands to the queue in one run

\* the options a queue is constructed with
BatchSizes == {1, 2}
MaxRetriesValues == {1, 2, 3}
BaseRetryDelays == {10}    \* the value the tests pass

\* the sendFn a queue is constructed with: a stub returning a promise that the
\* test settles, or a function that throws before returning a promise
SendFns == {"stub", "throws"}

\* the ways a network call of HttpTransport.request fails: a non-2xx response,
\* a rejected fetch, the abort of the timeout
FailureKinds == {"http", "fault", "timeout"}

VARIABLES
    options,            \* this.options: batchSize, maxRetries, baseRetryDelayMs
    sendFn,             \* this.sendFn: which function the queue delivers with
    logdash,            \* the Logdash instance in front of the queue, if any
    queue,              \* this.queue: the buffered items, oldest first
    inFlightPromises,   \* this.inFlightPromises: the sendWithRetry promises tracked
    flushTimer,         \* TRUE iff this.flushTimer is the handle of a pending timeout
    destroyed,          \* this.destroyed
    batches,            \* one record per sendWithRetry(items) invocation, in call order
    flushWaiters,       \* pending flush() calls: the promise set each one awaits
    accepted,           \* history: the items pushed into the buffer, in add() order
    dropped             \* history: TRUE once an add() call has been ignored

vars == <<options, sendFn, logdash, queue, inFlightPromises, flushTimer, destroyed,
          batches, flushWaiters, accepted, dropped>>

\* ----------------------------------------------------------------- helpers
Min(a, b) == IF a < b THEN a ELSE b

Range(s) == {s[i] : i \in DOMAIN s}

RECURSIVE Pow2(_)
\* Math.pow(2, n) for the loop variable n >= 0
Pow2(n) == IF n <= 0 THEN 1 ELSE 2 * Pow2(n - 1)

RECURSIVE Concat(_)
\* the items of a sequence of batch records, concatenated in order
Concat(bs) == IF bs = <<>> THEN <<>> ELSE bs[1].items \o Concat(Tail(bs))

Terminal(r) == r.pc \in {"succeeded", "abandoned"}

\* the positions of batch r with a call of an earlier attempt still open
Stale(r) == {k \in DOMAIN r.stale : r.stale[k] > 0}

\* the state of the promise sendWithRetry returned for batch r: fulfilled by
\* either return, rejected only by an exception that leaves the function
promiseState(r) ==
    IF Terminal(r) THEN "fulfilled"
    ELSE IF r.pc = "thrown" THEN "rejected"
    ELSE "pending"

\* the part of the state flushBatch works on
Core == [queue |-> queue, batches |-> batches, inFlightPromises |-> inFlightPromises]

SetCore(st) ==
    /\ queue' = st.queue
    /\ batches' = st.batches
    /\ inFlightPromises' = st.inFlightPromises

\* ------------------------------------------------ HttpTransport, the code
\* mutant: sendMetrics as one bulk call
sendMetricsBulk(metrics) == <<"open">>

\* sendMetrics(metrics): metrics.map(metric => this.request(...)), one network
\* call per item, each started (fetch called) before map returns
sendMetrics(metrics) == [k \in 1..Len(metrics) |-> "open"]

\* sendLogs(logs): one request carrying the whole batch
sendLogs(logs) == <<"open">>

\* request(): resolves for an ok response; throws for a non-2xx response, for a
\* rejected fetch and for the abort after timeoutMs
request(outcome) == IF outcome = "ok" THEN "ok" ELSE "failed"

\* mutant: the composite waits for successes only, a failed call leaves it pending
promiseAllHangs(reqs) ==
    IF \A k \in DOMAIN reqs : reqs[k] = "ok" THEN "fulfilled" ELSE "pending"

\* Promise.all over the calls of one sendFn invocation: rejected with the first
\* failure, fulfilled once every call has succeeded
promiseAll(reqs) ==
    IF \E k \in DOMAIN reqs : reqs[k] = "failed" THEN "rejected"
    ELSE IF \A k \in DOMAIN reqs : reqs[k] = "ok" THEN "fulfilled"
    ELSE "pending"

\* the calls of a sequence that have not completed
Open(reqs) == {k \in DOMAIN reqs : reqs[k] = "open"}

\* ------------------------------------------------- RequestQueue, the code
\* Array.prototype.splice(0, n): the removed head of q ...
spliceTaken(q, n) == SubSeq(q, 1, Min(n, Len(q)))

\* mutant: slice() in place of splice(), the buffer keeps what was taken
spliceLeftSlice(q, n) == q

\* ... and what is left in q
spliceLeft(q, n) == SubSeq(q, Min(n, Len(q)) + 1, Len(q))

\* mutant: > in place of >=, the threshold is reached one item late
thresholdExceeded(len) == len > options.batchSize

\* add(): if (this.queue.length >= this.options.batchSize)
thresholdReached(len) == len >= options.batchSize

\* mutant: attempt <= maxRetries, one attempt too many
loopConditionInclusive(attempt) == attempt <= options.maxRetries

\* sendWithRetry: the loop condition, attempt < this.options.maxRetries
loopCondition(attempt) == attempt < options.maxRetries

\* mutant: no backoff, the next attempt follows the failure at once
sleepsAfterNever(attempt) == FALSE

\* sendWithRetry: if (attempt < this.options.maxRetries - 1), a sleep follows
sleepsAfter(attempt) == attempt < options.maxRetries - 1

\* mutant: the exponent counts attempts from 1
retryDelayFromOne(attempt) == options.baseRetryDelayMs * Pow2(attempt + 1)

\* sendWithRetry: this.options.baseRetryDelayMs * Math.pow(2, attempt)
retryDelay(attempt) == options.baseRetryDelayMs * Pow2(attempt)

RECURSIVE loopHead(_)

\* mutant: a catch block that rethrows, the exception leaves sendWithRetry
catchBlockRethrow(r, kind) ==
    [r EXCEPT !.failures = @ + 1, !.lastError = kind, !.pc = "thrown"]

\* mutant: the diagnostic is logged in the catch block, for every failed attempt
catchBlockLogsEach(r, kind) ==
    LET failed == [r EXCEPT !.failures = @ + 1, !.errorsLogged = @ + 1]
    IN  IF sleepsAfter(failed.attempt)
        THEN [failed EXCEPT !.pc = "sleeping",
                            !.delays = Append(@, retryDelay(failed.attempt))]
        ELSE loopHead([failed EXCEPT !.attempt = @ + 1, !.lastError = kind])

\* mutant: a non-2xx response is treated as final, the others are retried
catchBlockHttpFinal(r, kind) ==
    LET failed == [r EXCEPT !.failures = @ + 1]
    IN  IF kind # "http" /\ sleepsAfter(failed.attempt)
        THEN [failed EXCEPT !.pc = "sleeping",
                            !.delays = Append(@, retryDelay(failed.attempt))]
        ELSE [failed EXCEPT !.pc = "abandoned", !.errorsLogged = @ + 1,
                            !.lastError = kind]

\* sendWithRetry: the catch block for an error of the given kind, whether
\* sendFn threw it or the awaited promise rejected with it; when no sleep
\* follows, attempt++ and the next pass through the loop head. lastError is
\* read by the diagnostic after the loop only, so the record keeps it where a
\* pass through the loop head follows at once; across a sleep it is dead (the
\* next attempt returns or overwrites it)
catchBlock(r, kind) ==
    LET failed == [r EXCEPT !.failures = @ + 1]
    IN  IF sleepsAfter(failed.attempt)
        THEN [failed EXCEPT !.pc = "sleeping",
                            !.delays = Append(@, retryDelay(failed.attempt))]
        ELSE loopHead([failed EXCEPT !.attempt = @ + 1, !.lastError = kind])

\* the transport's function has started the calls reqs for batch r: call k
\* carries item k (sendMetrics) or the whole batch (sendLogs, k = 1). A call of
\* the previous invocation that is still open is not cancelled, it becomes
\* stale; r.delivered[k] counts the ok responses to the calls at position k
startCalls(r, reqs) ==
    [r EXCEPT !.pc = "sending",
              !.stale = [k \in DOMAIN reqs |->
                            (IF k \in DOMAIN r.stale THEN r.stale[k] ELSE 0)
                            + (IF k \in Open(r.reqs) THEN 1 ELSE 0)],
              !.delivered = [k \in DOMAIN reqs |->
                                IF k \in DOMAIN r.delivered THEN r.delivered[k] ELSE 0],
              !.reqs = reqs]

\* sendWithRetry: this.sendFn(items) inside the try block. The stub returns a
\* pending promise; a throwing sendFn lands in the catch block in the same
\* step; the transport's functions start their network calls, and the calls of
\* an earlier attempt that are still open go on unobserved (r.stale counts
\* them, per position in the batch)
callSendFn(r) ==
    CASE sendFn = "stub" -> [r EXCEPT !.pc = "sending"]
      [] sendFn = "throws" -> catchBlock(r, "thrown")
      [] sendFn = "sendLogs" -> startCalls(r, sendLogs(r.items))
      [] sendFn = "sendMetrics" -> startCalls(r, sendMetrics(r.items))

\* sendWithRetry at the head of its loop with loop variable r.attempt: either
\* the next iteration calls sendFn (r.calls counts the invocations) and awaits
\* it, or the loop is left, the diagnostic is logged and the promise resolves
loopHead(r) ==
    IF loopCondition(r.attempt)
    THEN callSendFn([r EXCEPT !.calls = @ + 1])
    ELSE [r EXCEPT !.pc = "abandoned", !.errorsLogged = @ + 1]

\* sendWithRetry(items) up to its first await; `by` is history, the caller of
\* flushBatch that formed the batch: "add", "timer" or "flush"
sendWithRetry(items, by) ==
    loopHead([items |-> items, by |-> by, attempt |-> 0, pc |-> "start", calls |-> 0,
              failures |-> 0, delays |-> <<>>, errorsLogged |-> 0,
              lastError |-> "none", reqs |-> <<>>, stale |-> <<>>,
              delivered |-> <<>>])

\* mutant: the reaction hangs on the promise of the first sendFn call, the
\* operation is removed when that call settles
finallyDeleteEarly(set, b, r) == set \ {b}

\* mutant: the reaction never removes the promise
finallyKeep(set, b, r) == set

\* flushBatch: promise.finally(() => this.inFlightPromises.delete(promise)).
\* The reaction runs in the microtask checkpoint in which the promise of batch b
\* settles (r is the batch after the step), ahead of the reaction of any
\* Promise.all, which was registered later
finallyDelete(set, b, r) == IF promiseState(r) # "pending" THEN set \ {b} ELSE set

\* flushBatch(): splice the head chunk, start its delivery, track the promise
flushBatch(st, by) ==
    IF Len(st.queue) = 0
    THEN st
    ELSE LET b == Len(st.batches) + 1
             r == sendWithRetry(spliceTaken(st.queue, options.batchSize), by)
         IN  [queue |-> spliceLeft(st.queue, options.batchSize),
              batches |-> Append(st.batches, r),
              inFlightPromises |-> finallyDelete(st.inFlightPromises \cup {b}, b, r)]

\* mutant: the callback does not schedule the next timeout
scheduleFlushOnce == FALSE

\* scheduleFlush(): whether a timeout is pending afterwards
scheduleFlush == IF destroyed THEN FALSE ELSE TRUE

\* mutant: add() without the destroyed check
AddUnchecked ==
    /\ Len(accepted) < MaxAdds
    /\ LET item == Len(accepted) + 1
           pushed == [Core EXCEPT !.queue = Append(queue, item)]
       IN  /\ SetCore(IF thresholdReached(Len(pushed.queue))
                      THEN flushBatch(pushed, "add") ELSE pushed)
           /\ accepted' = Append(accepted, item)
    /\ UNCHANGED <<options, sendFn, logdash, flushTimer, destroyed, flushWaiters, dropped>>

\* mutant: add() with unshift() in place of push()
AddUnshift ==
    /\ Len(accepted) < MaxAdds
    /\ dropped' = (dropped \/ destroyed)
    /\ IF destroyed
       THEN UNCHANGED <<queue, batches, inFlightPromises, accepted>>
       ELSE LET item == Len(accepted) + 1
                pushed == [Core EXCEPT !.queue = <<item>> \o queue]
            IN  /\ SetCore(IF thresholdReached(Len(pushed.queue))
                           THEN flushBatch(pushed, "add") ELSE pushed)
                /\ accepted' = Append(accepted, item)
    /\ UNCHANGED <<options, sendFn, logdash, flushTimer, destroyed, flushWaiters>>

\* add(item); an accepted item is identified by its ordinal among the accepted
\* ones
QueueAdd ==
    /\ Len(accepted) < MaxAdds
    /\ dropped' = (dropped \/ destroyed)
    /\ IF destroyed
       THEN UNCHANGED <<queue, batches, inFlightPromises, accepted>>
       ELSE LET item == Len(accepted) + 1
                pushed == [Core EXCEPT !.queue = Append(queue, item)]
            IN  /\ SetCore(IF thresholdReached(Len(pushed.queue))
                           THEN flushBatch(pushed, "add") ELSE pushed)
                /\ accepted' = Append(accepted, item)
    /\ UNCHANGED <<options, sendFn, flushTimer, destroyed, flushWaiters>>

\* add(item) on a queue of its own, or with an item that is no log entry
Add == QueueAdd /\ UNCHANGED logdash

\* a flush() call at its await: the promises of the copy that have not settled
\* yet, and as history the number of items accepted before the call
Waiter(set) == [pending |-> set, accepted |-> Len(accepted)]

\* mutant: flush() only waits, without the forced dispatch
FlushWaitOnly ==
    /\ Cardinality(flushWaiters) < MaxFlushes
    /\ flushWaiters' = flushWaiters \cup {Waiter(inFlightPromises)}
    /\ UNCHANGED <<options, sendFn, logdash, queue, batches, inFlightPromises, flushTimer,
                   destroyed, accepted, dropped>>

\* mutant: the set is copied before the forced dispatch
FlushCopyFirst ==
    /\ Cardinality(flushWaiters) < MaxFlushes
    /\ SetCore(IF Len(queue) > 0 THEN flushBatch(Core, "flush") ELSE Core)
    /\ flushWaiters' = flushWaiters \cup {Waiter(inFlightPromises)}
    /\ UNCHANGED <<options, sendFn, logdash, flushTimer, destroyed, accepted, dropped>>

\* flush() up to its await: the forced dispatch, then Promise.all over a copy
\* of the set
Flush ==
    /\ Cardinality(flushWaiters) < MaxFlushes
    /\ LET after == IF Len(queue) > 0 THEN flushBatch(Core, "flush") ELSE Core
       IN  /\ SetCore(after)
           /\ flushWaiters' = flushWaiters \cup {Waiter(after.inFlightPromises)}
    /\ UNCHANGED <<options, sendFn, logdash, flushTimer, destroyed, accepted, dropped>>

\* flush() after its await: every promise of the copy has settled
FlushResolve(w) ==
    /\ w \in flushWaiters
    /\ w.pending = {}
    /\ flushWaiters' = flushWaiters \ {w}
    /\ UNCHANGED <<options, sendFn, logdash, queue, inFlightPromises, flushTimer,
                   destroyed, batches, accepted, dropped>>

\* mutant: destroy() flips the flag
DestroyToggle ==
    /\ destroyed' = ~destroyed
    /\ flushTimer' = IF flushTimer THEN FALSE ELSE flushTimer
    /\ UNCHANGED <<options, sendFn, logdash, queue, inFlightPromises, batches,
                   flushWaiters, accepted, dropped>>

\* mutant: destroy() dispatches what is buffered before it stops the timer
DestroyDrains ==
    /\ destroyed' = TRUE
    /\ flushTimer' = IF flushTimer THEN FALSE ELSE flushTimer
    /\ SetCore(IF Len(queue) > 0 THEN flushBatch(Core, "destroy") ELSE Core)
    /\ UNCHANGED <<options, sendFn, logdash, flushWaiters, accepted, dropped>>

\* destroy()
Destroy ==
    /\ destroyed' = TRUE
    /\ flushTimer' = IF flushTimer THEN FALSE ELSE flushTimer
    /\ UNCHANGED <<options, sendFn, logdash, queue, inFlightPromises, batches,
                   flushWaiters, accepted, dropped>>

\* the timeout callback of scheduleFlush()
TimerFire ==
    /\ flushTimer
    /\ SetCore(IF Len(queue) > 0 THEN flushBatch(Core, "timer") ELSE Core)
    /\ flushTimer' = scheduleFlush
    /\ UNCHANGED <<options, sendFn, logdash, destroyed, flushWaiters, accepted, dropped>>

\* a continuation of sendWithRetry has left batch b as r
Continue(b, r) ==
    /\ batches' = [batches EXCEPT ![b] = r]
    /\ inFlightPromises' = finallyDelete(inFlightPromises, b, r)
    /\ flushWaiters' = {[w EXCEPT !.pending = finallyDelete(@, b, r)] : w \in flushWaiters}
    /\ UNCHANGED <<options, sendFn, logdash, queue, flushTimer, destroyed, accepted, dropped>>

\* mutant: break in place of return, the diagnostic after the loop is logged
SendOkBreak(b) ==
    /\ b \in DOMAIN batches
    /\ batches[b].pc = "sending"
    /\ sendFn = "stub"
    /\ Continue(b, [batches[b] EXCEPT !.pc = "succeeded", !.errorsLogged = @ + 1])

\* sendWithRetry: await this.sendFn(items) resolves (the stub's promise); return
SendOk(b) ==
    /\ b \in DOMAIN batches
    /\ batches[b].pc = "sending"
    /\ sendFn = "stub"
    /\ Continue(b, [batches[b] EXCEPT !.pc = "succeeded"])

\* sendWithRetry: await this.sendFn(items) throws (the stub's promise rejects)
SendFail(b) ==
    /\ b \in DOMAIN batches
    /\ batches[b].pc = "sending"
    /\ sendFn = "stub"
    /\ Continue(b, catchBlock(batches[b], "rejected"))

\* sendWithRetry: await this.sleep(delay) resolves; attempt++ and the loop head
SleepDone(b) ==
    /\ b \in DOMAIN batches
    /\ batches[b].pc = "sleeping"
    /\ Continue(b, loopHead([batches[b] EXCEPT !.attempt = @ + 1]))

\* what a completed call adds to the collector's side: an ok response means
\* the collector has taken the payload (request(): response.ok)
okResponses(outcome) == IF request(outcome) = "ok" THEN 1 ELSE 0

\* call k of the current sendFn invocation of batch b completes. While
\* sendWithRetry still awaits the invocation, the first failure rejects it (the
\* catch block) and the last success fulfils it (return); afterwards nobody
\* observes the call
RequestSettle(b, k, outcome) ==
    /\ b \in DOMAIN batches
    /\ k \in Open(batches[b].reqs)
    /\ LET r == [batches[b] EXCEPT !.reqs[k] = request(outcome),
                                   !.delivered[k] = @ + okResponses(outcome)]
       IN  Continue(b, IF batches[b].pc # "sending" THEN r
                       ELSE IF promiseAll(r.reqs) = "rejected" THEN catchBlock(r, outcome)
                       ELSE IF promiseAll(r.reqs) = "fulfilled"
                            THEN [r EXCEPT !.pc = "succeeded"]
                       ELSE r)

\* request(): the response is ok
RequestOk(b, k) == RequestSettle(b, k, "ok")

\* request(): the call fails in one of the three ways
RequestFail(b, k, kind) == RequestSettle(b, k, kind)

\* a call of an earlier attempt completes, one way or the other
StaleSettle(b) ==
    /\ b \in DOMAIN batches
    /\ \E k \in Stale(batches[b]) : \E outcome \in {"ok", "failed"} :
          Continue(b, [batches[b] EXCEPT !.stale[k] = @ - 1,
                                         !.delivered[k] = @ + okResponses(outcome)])

\* the queue on its own, as the tests construct it
NoLogdash ==
    [impl |-> "none", apiKey |-> FALSE, remote |-> TRUE, sequenceNumber |-> 0,
     entries |-> <<>>]

\* new RequestQueue(sendFn, options): empty fields, then scheduleFlush()
Init ==
    /\ options \in [batchSize : BatchSizes,
                    maxRetries : MaxRetriesValues,
                    baseRetryDelayMs : BaseRetryDelays]
    /\ sendFn \in SendFns
    /\ logdash = NoLogdash
    /\ queue = <<>>
    /\ inFlightPromises = {}
    /\ flushTimer = TRUE
    /\ destroyed = FALSE
    /\ batches = <<>>
    /\ flushWaiters = {}
    /\ accepted = <<>>
    /\ dropped = FALSE

Next ==
    \/ Add
    \/ Flush
    \/ Destroy
    \/ TimerFire
    \/ \E w \in flushWaiters : FlushResolve(w)
    \/ \E b \in DOMAIN batches : SendOk(b)
    \/ \E b \in DOMAIN batches : SendFail(b)
    \/ \E b \in DOMAIN batches : SleepDone(b)

Spec == Init /\ [][Next]_vars

\* The specification of the liveness properties. A pending setTimeout callback
\* does run, so the periodic timer is weakly fair. The delivery tasks touch
\* neither the buffer nor the timer, so queues with at most one retry are
\* enough here and keep the behaviour graph small.
FairMaxRetriesValues == {1, 2}

FairInit == Init /\ options.maxRetries \in FairMaxRetriesValues

FairSpec == FairInit /\ [][Next]_vars /\ WF_vars(TimerFire)

\* ------------------------------------- a queue over the HttpTransport
\* the options of the queue that is followed through the transport
TransportOptions == [batchSize |-> 2, maxRetries |-> 2, baseRetryDelayMs |-> 10]

\* new RequestQueue(items => transport.sendLogs(items), options), or the same
\* with transport.sendMetrics
TransportInit ==
    /\ options = TransportOptions
    /\ sendFn \in {"sendLogs", "sendMetrics"}
    /\ logdash = NoLogdash
    /\ queue = <<>>
    /\ inFlightPromises = {}
    /\ flushTimer = TRUE
    /\ destroyed = FALSE
    /\ batches = <<>>
    /\ flushWaiters = {}
    /\ accepted = <<>>
    /\ dropped = FALSE

\* runs shorter than the flush interval, without destroy(): the batches are
\* formed by the threshold and by flush(), and delivered call by call
TransportNext ==
    \/ Add
    \/ Flush
    \/ \E w \in flushWaiters : FlushResolve(w)
    \/ \E b \in DOMAIN batches : \E k \in DOMAIN batches[b].reqs : RequestOk(b, k)
    \/ \E b \in DOMAIN batches : \E k \in DOMAIN batches[b].reqs :
          \E kind \in FailureKinds : RequestFail(b, k, kind)
    \/ \E b \in DOMAIN batches : StaleSettle(b)
    \/ \E b \in DOMAIN batches : SleepDone(b)

TransportSpec == TransportInit /\ [][TransportNext]_vars

\* a step of the event loop on behalf of a delivery: a network call completes
\* (by the abort of its timeout at the latest), or a backoff sleep ends
DeliveryStep ==
    \/ \E b \in DOMAIN batches : \E k \in DOMAIN batches[b].reqs : RequestOk(b, k)
    \/ \E b \in DOMAIN batches : \E k \in DOMAIN batches[b].reqs :
          \E kind \in FailureKinds : RequestFail(b, k, kind)
    \/ \E b \in DOMAIN batches : StaleSettle(b)
    \/ \E b \in DOMAIN batches : SleepDone(b)

\* the flush() calls that await nothing any more
SettledWaiters == {[pending |-> {}, accepted |-> n] : n \in 0..MaxAdds}

\* The transport under fairness: request() arms a timeout that aborts the
\* fetch, so an open call does complete; a sleep is a timeout, which does
\* expire; the continuation of an await whose promises have all settled does
\* run.
FairTransportSpec ==
    /\ TransportInit
    /\ [][TransportNext]_vars
    /\ WF_vars(DeliveryStep)
    /\ \A w \in SettledWaiters : WF_vars(FlushResolve(w))

\* ---------------------------------------------------- Logdash, the facade
\* RequestQueue's DEFAULT_OPTIONS; Logdash constructs both queues without options
DefaultOptions == [batchSize |-> 25, maxRetries |-> 3, baseRetryDelayMs |-> 1000]

\* the two Logdash classes of the repository
Impls == {"Logdash.ts", "part_000"}

\* the public constructor, new Logdash(apiKey?, options?). src/src/Logdash.ts
\* creates the transport and the queues only for a truthy apiKey, else the
\* core holds null queues; src/unnamed/part_000 replaces a missing key by ''
\* and creates the transport and the queues regardless
\* in both cases the core starts with sequenceNumber 0. logdash.entries is
\* history: entries[i] is the log entry that went into the log queue as item i
LogdashConstructor(impl, apiKey) ==
    [impl |-> impl, apiKey |-> apiKey,
     remote |-> IF impl = "Logdash.ts" THEN apiKey ELSE TRUE,
     sequenceNumber |-> 0, entries |-> <<>>]

\* withNamespace(name): new Logdash(this.core, name), an instance on the same
\* core; RootNamespace stands for the undefined namespace of the root instance
RootNamespace == "undefined"

Namespaces == {RootNamespace, "api"}

\* mutant: the entry takes the counter's value, the counter stays
sequenceNumberKept(core) == core

\* this.core.sequenceNumber++, the side effect on the shared core
sequenceNumberIncrement(core) == [core EXCEPT !.sequenceNumber = @ + 1]

\* log(level, data) of the instance with the given namespace: the line is
\* printed, then this.core.logQueue?.add(entry). With a null queue the
\* argument is not evaluated; with a queue the entry is built, the counter
\* incremented, and add() takes the entry or, destroyed, ignores it
LogdashLog(namespace) ==
    IF ~logdash.remote
    THEN UNCHANGED vars
    ELSE /\ logdash.sequenceNumber < MaxLogs
         /\ LET entry == [sequenceNumber |-> logdash.sequenceNumber,
                          namespace |-> namespace]
                core == sequenceNumberIncrement(logdash)
            IN  IF sendFn = "sendLogs"
                THEN /\ QueueAdd
                     /\ logdash' = IF destroyed THEN core
                                   ELSE [core EXCEPT !.entries = Append(@, entry)]
                ELSE /\ logdash' = core
                     /\ UNCHANGED <<options, sendFn, queue, inFlightPromises,
                                    flushTimer, destroyed, batches, flushWaiters,
                                    accepted, dropped>>

\* setMetric(name, value) and mutateMetric(name, delta): return without a
\* metric queue, else this.core.metricQueue.add(update)
LogdashSetMetric ==
    IF logdash.remote /\ sendFn = "sendMetrics"
    THEN Len(accepted) < MaxLogs /\ Add
    ELSE UNCHANGED vars

\* flush(): return without queues, else await both queues' flush(); the step
\* is the part of the queue that is followed
LogdashFlush ==
    IF logdash.remote THEN Flush ELSE UNCHANGED vars

\* destroy(): this.core.logQueue?.destroy(), this.core.metricQueue?.destroy()
LogdashDestroy ==
    IF logdash.remote THEN Destroy ELSE UNCHANGED vars

\* new Logdash(apiKey?): one of the two queues of the core is followed, the log
\* queue (constructed with transport.sendLogs) or the metric queue (constructed
\* with transport.sendMetrics); without queues there is no timer either
LogdashInit ==
    /\ logdash \in {LogdashConstructor(impl, apiKey) : impl \in Impls, apiKey \in BOOLEAN}
    /\ sendFn \in {"sendLogs", "sendMetrics"}
    /\ options = DefaultOptions
    /\ queue = <<>>
    /\ inFlightPromises = {}
    /\ flushTimer = logdash.remote
    /\ destroyed = FALSE
    /\ batches = <<>>
    /\ flushWaiters = {}
    /\ accepted = <<>>
    /\ dropped = FALSE

LogdashNext ==
    \/ LogdashLog(RootNamespace)
    \/ LogdashSetMetric
    \/ LogdashFlush
    \/ LogdashDestroy
    \/ TimerFire
    \/ \E w \in flushWaiters : FlushResolve(w)
    \/ \E b \in DOMAIN batches : \E k \in DOMAIN batches[b].reqs : RequestOk(b, k)
    \/ \E b \in DOMAIN batches : \E k \in DOMAIN batches[b].reqs :
          \E kind \in FailureKinds : RequestFail(b, k, kind)
    \/ \E b \in DOMAIN batches : StaleSettle(b)
    \/ \E b \in DOMAIN batches : SleepDone(b)

LogdashSpec == LogdashInit /\ [][LogdashNext]_vars

\* new Logdash(apiKey) of either class and its namespaced instances, all on
\* one core; the log queue is followed, and the collector answers every
\* request with ok (a retry sends the same entries again, C4)
NamespaceInit ==
    /\ LogdashInit
    /\ logdash.apiKey
    /\ sendFn = "sendLogs"

NamespaceNext ==
    \/ \E namespace \in Namespaces : LogdashLog(namespace)
    \/ LogdashFlush
    \/ LogdashDestroy
    \/ TimerFire
    \/ \E w \in flushWaiters : FlushResolve(w)
    \/ \E b \in DOMAIN batches : \E k \in DOMAIN batches[b].reqs : RequestOk(b, k)

NamespaceSpec == NamespaceInit /\ [][NamespaceNext]_vars

\* ------------------------------------------------------------------ claims
RECURSIVE SumCalls(_)
SumCalls(bs) == IF bs = <<>> THEN 0 ELSE bs[1].calls + SumCalls(Tail(bs))

\* every item held anywhere: the batches in the order they were formed, then the buffer
AllItems == Concat(batches) \o queue

\* the batches a step has formed
Formed == (DOMAIN batches') \ (DOMAIN batches)

\* C1: once destroy() has run, no step accepts an item or lets the buffer grow,
\* no step forms a batch on behalf of add() or of the timer (the transport is
\* not invoked because of them), and no timeout is pending before or after
\* any step.
C1_AddAfterDestroyIsNoOp ==
    [][destroyed =>
          /\ accepted' = accepted
          /\ Len(queue') <= Len(queue)
          /\ \A b \in Formed : batches'[b].by \notin {"add", "timer"}
          /\ ~flushTimer /\ ~flushTimer']_vars

\* C1 witness: items are buffered, destroy() has run and an add() call made
\* after it was ignored
C1_Witness ==
    /\ destroyed
    /\ dropped
    /\ queue # <<>>

\* C2 as claimed: no step taken after destroy() forms a batch, takes anything
\* from the buffer, invokes the transport for a new batch or arms the timer.
C2_NoBatchAfterDestroy_Claimed ==
    [][destroyed =>
          /\ Formed = {}
          /\ queue' = queue
          /\ ~flushTimer']_vars

\* C3: every accepted item occurs exactly once among the buffer and the batches
\* (never in two batches, never in a batch and in the buffer), and no batch is
\* longer than batchSize.
C3_ExactlyOneBatch ==
    /\ \A i \in Range(accepted) :
           Cardinality({k \in DOMAIN AllItems : AllItems[k] = i}) = 1
    /\ \A b \in DOMAIN batches : Len(batches[b].items) <= options.batchSize

\* C3 witness: a full batch of two items was formed and a later item is buffered
C3_Witness ==
    /\ \E b \in DOMAIN batches : Len(batches[b].items) = 2
    /\ queue # <<>>

\* C4: the batches in the order they were formed, followed by the buffer, are
\* the accepted items in add() order (so each batch was a contiguous prefix of
\* the buffer), and every batch formed has had its first transport attempt, so
\* when a later batch is formed every earlier one has already been attempted.
C4_InsertionOrder ==
    /\ AllItems = accepted
    /\ \A b \in DOMAIN batches : batches[b].calls >= 1

\* C4 witness: two batches were formed, the earlier one holding the earlier item
C4_Witness ==
    /\ Len(batches) >= 2
    /\ batches[1].items # <<>>
    /\ batches[2].items # <<>>
    /\ batches[1].items[1] < batches[2].items[1]

\* C5: a batch is passed to the transport at most maxRetries times; it is
\* abandoned exactly when maxRetries attempts have failed, after exactly
\* maxRetries calls; the items of an abandoned batch are not in the buffer, and
\* an abandoned batch never changes again (no further call, no requeue).
C5_AtMostMaxRetries ==
    /\ [](\A b \in DOMAIN batches :
             /\ batches[b].calls <= options.maxRetries
             /\ (batches[b].pc = "abandoned" <=>
                     batches[b].failures = options.maxRetries)
             /\ (batches[b].pc = "abandoned" =>
                     /\ batches[b].calls = options.maxRetries
                     /\ Range(batches[b].items) \cap Range(queue) = {}
                     /\ \A c \in DOMAIN batches :
                            c # b => Range(batches[b].items) \cap Range(batches[c].items) = {}))
    /\ [][\A b \in DOMAIN batches :
             batches[b].pc = "abandoned" =>
                 /\ batches'[b] = batches[b]
                 /\ Range(batches[b].items) \cap Range(queue') = {}]_vars

\* C5 witness: a batch was abandoned after three failed attempts
C5_Witness ==
    \E b \in DOMAIN batches :
        /\ batches[b].pc = "abandoned"
        /\ batches[b].calls = 3
        /\ options.maxRetries = 3

\* C6: a batch that succeeded after j - 1 failures was passed to the transport
\* exactly j times, j <= maxRetries, and no diagnostic was logged for it; no
\* batch is ever called more than once beyond its failures; a batch that has
\* succeeded never changes again.
C6_StopsAtFirstSuccess ==
    /\ [](\A b \in DOMAIN batches :
             /\ batches[b].calls <= batches[b].failures + 1
             /\ (batches[b].pc = "succeeded" =>
                     /\ batches[b].calls = batches[b].failures + 1
                     /\ batches[b].calls <= options.maxRetries
                     /\ batches[b].errorsLogged = 0))
    /\ [][\A b \in DOMAIN batches :
             batches[b].pc = "succeeded" => batches'[b] = batches[b]]_vars

\* C6 witness: a batch failed once, then succeeded on its second call
C6_Witness ==
    \E b \in DOMAIN batches :
        /\ batches[b].pc = "succeeded"
        /\ batches[b].failures = 1
        /\ batches[b].calls = 2

C8_ThresholdBatching ==
    (/\ ~dropped
     /\ \A b \in DOMAIN batches : batches[b].by = "add")
    =>
    /\ Len(batches) = Len(accepted) \div options.batchSize
    /\ \A b \in DOMAIN batches :
           batches[b].items =
               [k \in 1..options.batchSize |-> (b - 1) * options.batchSize + k]
    /\ queue = [k \in 1..(Len(accepted) % options.batchSize) |->
                    Len(batches) * options.batchSize + k]
    /\ ((\A b \in DOMAIN batches : batches[b].failures = 0)
            => SumCalls(batches) = Len(accepted) \div options.batchSize)

\* C8 witness: 2 * batchSize add() calls alone have formed two batches
C8_Witness ==
    /\ Len(accepted) = 2 * options.batchSize
    /\ ~dropped
    /\ Len(batches) = 2
    /\ \A b \in DOMAIN batches : batches[b].by = "add" /\ batches[b].failures = 0
    /\ SumCalls(batches) = 2

\* C9: a timer firing dispatches the head chunk of a non-empty buffer as one
\* batch (and nothing when the buffer is empty) and, the queue not being
\* destroyed, leaves a timeout pending; and with a fair timer every buffered
\* item is eventually in a batch that was passed to the transport, unless the
\* queue is destroyed.
C9_PeriodicTrigger ==
    /\ [][TimerFire =>
             /\ IF queue # <<>>
                THEN /\ Len(batches') = Len(batches) + 1
                     /\ batches'[Len(batches')].items =
                            SubSeq(queue, 1, Min(options.batchSize, Len(queue)))
                     /\ batches'[Len(batches')].calls = 1
                     /\ queue' = SubSeq(queue, Min(options.batchSize, Len(queue)) + 1,
                                        Len(queue))
                ELSE UNCHANGED <<queue, batches>>
             /\ (~destroyed => flushTimer')]_vars
    /\ \A i \in 1..MaxAdds :
           (i \in Range(queue)) ~>
               (\/ destroyed
                \/ \E b \in DOMAIN batches :
                       i \in Range(batches[b].items) /\ batches[b].calls >= 1)

\* C9 witness: the timer has dispatched a batch shorter than batchSize and a
\* timeout is pending again
C9_Witness ==
    /\ ~destroyed
    /\ flushTimer
    /\ \E b \in DOMAIN batches :
           /\ batches[b].by = "timer"
           /\ Len(batches[b].items) < options.batchSize

\* C10: the step that is the synchronous part of a flush() call leaves the
\* buffer empty, whatever the state it is called in.
C10_FlushEmptiesBuffer ==
    [][Flush => queue' = <<>>]_vars

\* C10 witness: flush() has dispatched a batch shorter than batchSize and the
\* buffer is empty
C10_Witness ==
    /\ queue = <<>>
    /\ \E b \in DOMAIN batches :
           /\ batches[b].by = "flush"
           /\ Len(batches[b].items) < options.batchSize

\* C11: a flush() call awaits every delivery operation that is in the in-flight
\* set when it is called, and the one its own forced dispatch starts; an
\* operation leaves the awaited set only in a step that ends it (succeeded or
\* abandoned), so one that is sending or in backoff keeps flush() pending, and
\* flush() resolves only from an empty awaited set. Called with an empty
\* buffer and an empty in-flight set, flush() forms no batch and awaits
\* nothing.
C11_FlushAwaitsTracked ==
    /\ [][Flush =>
             \E w \in flushWaiters' :
                 /\ w.accepted = Len(accepted)
                 /\ inFlightPromises \subseteq w.pending
                 /\ \A b \in Formed : ~Terminal(batches'[b]) => b \in w.pending
                 /\ (queue = <<>> /\ inFlightPromises = {}) =>
                        (batches' = batches /\ w.pending = {})]_vars
    /\ [][\A w \in flushWaiters :
             w.pending # {} =>
                 \E v \in flushWaiters' :
                     /\ v.accepted = w.accepted
                     /\ v.pending \subseteq w.pending
                     /\ \A b \in w.pending \ v.pending : Terminal(batches'[b])]_vars
    /\ [](\A w \in flushWaiters : \A b \in w.pending :
             b \in DOMAIN batches /\ batches[b].pc \in {"sending", "sleeping"})

\* a flush() call is pending on two operations: an earlier one, and the one it
\* dispatched itself, which is in backoff
C11_Witness ==
    \E w \in flushWaiters : \E b, c \in w.pending :
        /\ c < b
        /\ batches[b].by = "flush"
        /\ batches[b].pc = "sleeping"

\* C12: no failure of the transport leaves sendWithRetry: whether sendFn
\* throws before it returns a promise or the promise it returned rejects,
\* and also when the batch is abandoned, the promise of the batch is never
\* rejected (so the Promise.all of flush() cannot reject, and a flush() whose
\* awaited set is empty resolves); add() completes in its own step, whatever
\* the state of the deliveries, and leaves the batch it formed to the
\* background.
C12_FailuresNeverPropagate ==
    /\ [](\A b \in DOMAIN batches :
             /\ promiseState(batches[b]) # "rejected"
             /\ batches[b].pc \in {"sending", "sleeping", "succeeded", "abandoned"})
    /\ [](Len(accepted) < MaxAdds => ENABLED Add)
    /\ [](\A w \in flushWaiters : w.pending = {} => ENABLED FlushResolve(w))
    /\ [][\A b \in DOMAIN batches :
             batches[b].failures < batches'[b].failures =>
                 promiseState(batches'[b]) \in {"pending", "fulfilled"}]_vars

\* a sendFn that throws synchronously: a batch formed by add() has been
\* abandoned, and a flush() call is about to resolve
C12_Witness ==
    /\ sendFn = "throws"
    /\ \E b \in DOMAIN batches : batches[b].by = "add" /\ batches[b].pc = "abandoned"
    /\ \E w \in flushWaiters : w.pending = {} /\ w.accepted > 0

\* the batch that holds accepted item i, if a batch has taken it
BatchOf(i) == {b \in DOMAIN batches : i \in Range(batches[b].items)}

\* C13, as claimed: when a flush() call resolves, every item accepted before
\* the call has been delivered successfully, whatever the transport did.
C13_AllDeliveredAfterFlush_Claimed ==
    [][\A w \in flushWaiters :
          FlushResolve(w) =>
              \A i \in 1..w.accepted :
                  \E b \in BatchOf(i) : batches[b].pc = "succeeded"]_vars

\* C13, amended: when a flush() call resolves, every item accepted before the
\* call is in a batch that was handed to the transport and whose delivery
\* has ended: delivered, or abandoned after maxRetries failed attempts.
C13_AllSettledAfterFlush ==
    [][\A w \in flushWaiters :
          FlushResolve(w) =>
              \A i \in 1..w.accepted :
                  \E b \in BatchOf(i) :
                      /\ batches[b].calls >= 1
                      /\ \/ batches[b].pc = "succeeded"
                         \/ /\ batches[b].pc = "abandoned"
                            /\ batches[b].failures = options.maxRetries]_vars

\* a flush() call is about to resolve; of the items accepted before it, one
\* batch was delivered and the batch flush() dispatched was abandoned
C13_Witness ==
    \E w \in flushWaiters :
        /\ w.pending = {}
        /\ \E b, c \in DOMAIN batches :
              /\ batches[b].pc = "succeeded"
              /\ batches[c].pc = "abandoned" /\ batches[c].by = "flush"
              /\ \A i \in Range(batches[b].items) \cup Range(batches[c].items) :
                    i <= w.accepted

\* C14: destroy() can be called in every state; it leaves the queue destroyed
\* with no timeout pending, and called on a queue that is already destroyed
\* it changes nothing at all (no step from a destroyed state that changes
\* the state is a destroy() step), so any number of calls, wherever they are
\* interleaved, leaves what the first call left.
C14_DestroyIdempotent ==
    /\ [](ENABLED Destroy)
    /\ [][Destroy => destroyed' /\ ~flushTimer']_vars
    /\ [][destroyed => ~Destroy]_vars

\* a destroyed queue with buffered items and an operation in flight, on which
\* destroy() can be called again
C14_Witness ==
    /\ destroyed
    /\ ~flushTimer
    /\ queue # <<>>
    /\ inFlightPromises # {}
    /\ ENABLED Destroy

\* C15: a destroy() step changes nothing but the destroyed flag and the timer:
\* the buffer, the in-flight set, every batch (so no call of the transport, no
\* attempt counted or cancelled) and the pending flush() calls stay as they
\* are. In a destroyed queue a batch that is sending can still succeed or
\* fail, a batch in backoff still wakes up, and a batch is abandoned only
\* after maxRetries failed attempts.
C15_DestroyFrame ==
    /\ [][Destroy => UNCHANGED <<queue, inFlightPromises, batches, flushWaiters,
                                 accepted, dropped, options, sendFn>>]_vars
    /\ [](destroyed =>
             \A b \in DOMAIN batches :
                 /\ (batches[b].pc = "sending" /\ sendFn = "stub") =>
                        (ENABLED SendOk(b) /\ ENABLED SendFail(b))
                 /\ batches[b].pc = "sleeping" => ENABLED SleepDone(b)
                 /\ batches[b].pc = "abandoned" =>
                        batches[b].failures = options.maxRetries)
    /\ [][destroyed =>
             \A b \in DOMAIN batches :
                 batches[b].pc = "sleeping" /\ batches'[b] # batches[b] =>
                     batches'[b].calls = batches[b].calls + 1]_vars

\* a destroyed queue that still holds items, with one batch sending and one
\* in backoff
C15_Witness ==
    /\ destroyed
    /\ queue # <<>>
    /\ \E b, c \in inFlightPromises :
          batches[b].pc = "sending" /\ batches[c].pc = "sleeping"

\* C16, as claimed: a Logdash instance constructed without an API key never
\* hands a log or a metric to a queue, never has a batch formed (the
\* transport is never invoked) and has no flush() call waiting on deliveries.
C16_LocalModeNeverSends_Claimed ==
    (logdash.impl \in Impls /\ ~logdash.apiKey) =>
        /\ accepted = <<>>
        /\ queue = <<>>
        /\ batches = <<>>
        /\ flushWaiters = {}

\* C17: every invocation of sendMetrics starts exactly one network call per
\* item of the batch, and every invocation of sendLogs exactly one call for
\* the whole batch; all calls of an invocation are open when the invocation
\* returns (none has completed before the last is started). The invocation
\* counts as failed in the step in which the first of its calls fails, and
\* only then; it succeeds only when every call has succeeded.
C17_PerItemTransport ==
    /\ [](\A b \in DOMAIN batches :
             LET r == batches[b]
             IN  /\ Len(r.reqs) = IF sendFn = "sendMetrics" THEN Len(r.items) ELSE 1
                 /\ r.pc = "sending" =>
                        /\ \A k \in DOMAIN r.reqs : r.reqs[k] \in {"open", "ok"}
                        /\ Open(r.reqs) # {}
                 /\ r.pc = "succeeded" => \A k \in DOMAIN r.reqs : r.reqs[k] = "ok"
                 /\ r.pc \in {"sleeping", "abandoned"} =>
                        \E k \in DOMAIN r.reqs : r.reqs[k] = "failed")
    /\ [][\A b \in DOMAIN batches' :
             (b \notin DOMAIN batches \/ batches'[b].calls > batches[b].calls) =>
                 /\ batches'[b].pc = "sending"
                 /\ \A k \in DOMAIN batches'[b].reqs : batches'[b].reqs[k] = "open"]_vars
    /\ [][\A b \in DOMAIN batches :
             LET fails == \E k \in DOMAIN batches[b].reqs :
                              /\ batches[b].reqs[k] = "open"
                              /\ batches'[b].reqs[k] = "failed"
             IN  /\ batches'[b].failures # batches[b].failures =>
                        /\ batches'[b].failures = batches[b].failures + 1
                        /\ batches[b].pc = "sending"
                        /\ fails
                 /\ (batches[b].pc = "sending" /\ fails) =>
                        batches'[b].failures = batches[b].failures + 1]_vars

\* an invocation of sendMetrics for two items has failed with its first call
\* delivered, its second call failed
C17_Witness ==
    /\ sendFn = "sendMetrics"
    /\ \E b \in DOMAIN batches :
          /\ Len(batches[b].items) = 2
          /\ batches[b].reqs = <<"ok", "failed">>
          /\ batches[b].failures = 1
          /\ batches[b].pc = "sleeping"

\* C18: within one batch the attempts are sequential: sendFn is invoked again
\* only by the continuation that ends a backoff sleep, when every earlier
\* invocation has failed, so at most one invocation is outstanding. Batches
\* are independent: a step of one batch, or the formation of a new batch,
\* changes no other batch (neither its state nor its attempt count), and a
\* new batch gets its first attempt in the step that forms it, whatever the
\* earlier batches are doing.
C18_SequentialAttemptsIndependentBatches ==
    /\ [](\A b \in DOMAIN batches :
             /\ batches[b].calls <= batches[b].failures + 1
             /\ batches[b].pc = "sending" => batches[b].calls = batches[b].failures + 1)
    /\ [][\A b \in DOMAIN batches :
             batches'[b].calls # batches[b].calls =>
                 /\ batches'[b].calls = batches[b].calls + 1
                 /\ batches[b].pc = "sleeping"
                 /\ batches[b].failures = batches[b].calls]_vars
    /\ [][\A b, c \in DOMAIN batches :
             (b # c /\ batches'[b] # batches[b]) => batches'[c] = batches[c]]_vars
    /\ [][\A b \in Formed :
             /\ batches'[b].calls = 1
             /\ \A c \in DOMAIN batches : batches'[c] = batches[c]]_vars

\* three batches side by side: the first in backoff after a failure, the second
\* in its second attempt, the third just formed by the timer and sending
C18_Witness ==
    /\ Len(batches) = 3
    /\ batches[1].pc = "sleeping" /\ batches[1].failures = 1
    /\ batches[2].pc = "sending" /\ batches[2].calls = 2
    /\ batches[3].pc = "sending" /\ batches[3].calls = 1 /\ batches[3].by = "timer"

\* C19: a batch moves sending -> succeeded, or on a failure into backoff
\* (while attempts remain) and from there into the next attempt, or on the
\* failure of its last attempt to abandoned; an ended batch never changes.
\* (A sendFn that throws fails inside the step that invokes it, so its batches
\* go from backoff to backoff or to abandoned.) The in-flight set holds
\* exactly the operations that have not ended: an operation enters it when
\* its batch is formed, leaves it in the step that ends it, never while
\* sending or in backoff, and never comes back.
C19_BatchStateMachine ==
    /\ [](inFlightPromises =
             {b \in DOMAIN batches : batches[b].pc \in {"sending", "sleeping"}})
    /\ [](\A b \in DOMAIN batches :
             batches[b].pc \in {"sending", "sleeping", "succeeded", "abandoned"})
    /\ [][\A b \in DOMAIN batches :
             LET p == batches[b].pc
                 q == batches'[b].pc
             IN  /\ Terminal(batches[b]) => batches'[b] = batches[b]
                 /\ p = "sending" => q \in {"sending", "succeeded", "sleeping", "abandoned"}
                 /\ p = "sleeping" => q \in {"sleeping", "sending", "abandoned"}
                 /\ (p = "sleeping" /\ q = "abandoned") => sendFn = "throws"
                 /\ (p # "sleeping" /\ q = "sleeping") =>
                        batches'[b].failures < options.maxRetries
                 /\ (p # "abandoned" /\ q = "abandoned") =>
                        batches'[b].failures = options.maxRetries]_vars
    /\ [][/\ \A b \in inFlightPromises \ inFlightPromises' :
                ~Terminal(batches[b]) /\ Terminal(batches'[b])
          /\ \A b \in inFlightPromises' \ inFlightPromises : b \in Formed
          /\ \A b \in Formed : b \in inFlightPromises' \/ Terminal(batches'[b])]_vars

\* three operations: one abandoned and out of the set; one in its second
\* attempt and one in backoff, both in the set
C19_Witness ==
    /\ \E a \in DOMAIN batches :
          batches[a].pc = "abandoned" /\ a \notin inFlightPromises
    /\ \E b, c \in inFlightPromises :
          /\ batches[b].pc = "sending" /\ batches[b].failures = 1
          /\ batches[c].pc = "sleeping"

\* C20: whatever the way a network call fails (non-2xx response, rejected
\* fetch, timeout abort), the failure of the awaited invocation counts as one
\* failed attempt and has the effect that depends on the attempt number
\* only: backoff while attempts remain, abandonment after the failure of
\* attempt maxRetries. Every kind of failure is possible for every open call
\* of an awaited invocation; no batch is abandoned early, none gets more than
\* maxRetries attempts.
C20_UniformFailureHandling ==
    /\ [](\A b \in DOMAIN batches :
             LET r == batches[b]
             IN  /\ r.calls <= options.maxRetries
                 /\ r.failures <= r.calls
                 /\ r.pc = "abandoned" <=> r.failures = options.maxRetries
                 /\ r.pc = "abandoned" <=> r.lastError \in FailureKinds
                 /\ r.pc = "sending" =>
                        \A k \in Open(r.reqs) : \A kind \in FailureKinds :
                            ENABLED RequestFail(b, k, kind))
    /\ [][\A b \in DOMAIN batches : \A k \in DOMAIN batches[b].reqs :
             \A kind \in FailureKinds :
                 (batches[b].pc = "sending" /\ RequestFail(b, k, kind)) =>
                     batches'[b].failures = batches[b].failures + 1]_vars
    /\ [][\A b \in DOMAIN batches :
             batches'[b].failures # batches[b].failures =>
                 /\ batches'[b].failures = batches[b].failures + 1
                 /\ batches'[b].calls = batches[b].calls
                 /\ IF batches[b].failures + 1 < options.maxRetries
                    THEN /\ batches'[b].pc = "sleeping"
                         /\ Len(batches'[b].delays) = batches'[b].failures
                    ELSE /\ batches'[b].pc = "abandoned"
                         /\ batches'[b].errorsLogged = 1]_vars

\* three batches, each abandoned after maxRetries failed attempts, the last
\* failure being of a different kind for each
C20_Witness ==
    \E b, c, d \in DOMAIN batches :
        /\ batches[b].pc = "abandoned" /\ batches[b].lastError = "http"
        /\ batches[c].pc = "abandoned" /\ batches[c].lastError = "fault"
        /\ batches[d].pc = "abandoned" /\ batches[d].lastError = "timeout"
        /\ \A e \in {b, c, d} : batches[e].calls = options.maxRetries

\* C21: the diagnostic of sendWithRetry has been logged exactly once for every
\* abandoned batch and not at all for any other batch (sending, in backoff
\* after a failure that is retried, or delivered); it is logged in the step
\* that abandons the batch, which is the step of its last failed attempt.
C21_DiagnosticOncePerAbandonedBatch ==
    /\ [](\A b \in DOMAIN batches :
             batches[b].errorsLogged = IF batches[b].pc = "abandoned" THEN 1 ELSE 0)
    /\ [][\A b \in DOMAIN batches :
             batches'[b].errorsLogged # batches[b].errorsLogged =>
                 /\ batches'[b].errorsLogged = batches[b].errorsLogged + 1
                 /\ batches[b].pc # "abandoned"
                 /\ batches'[b].pc = "abandoned"
                 /\ batches'[b].failures = options.maxRetries]_vars
    /\ [][\A b \in DOMAIN batches :
             (batches'[b].failures # batches[b].failures
                 /\ batches'[b].failures < options.maxRetries) =>
                 batches'[b].errorsLogged = 0]_vars

\* one batch abandoned after three failed attempts, with its one diagnostic;
\* another delivered at its second attempt, without any
C21_Witness ==
    \E b, c \in DOMAIN batches :
        /\ batches[b].pc = "abandoned" /\ batches[b].failures = 3
        /\ batches[b].errorsLogged = 1
        /\ batches[c].pc = "succeeded" /\ batches[c].failures = 1
        /\ batches[c].errorsLogged = 0

\* nothing is left to do: every batch has ended and is out of the in-flight set,
\* no network call is open (of a current attempt or of an earlier one), and no
\* flush() call is pending
Quiescent ==
    /\ inFlightPromises = {}
    /\ \A b \in DOMAIN batches :
          /\ Terminal(batches[b])
          /\ Open(batches[b].reqs) = {}
          /\ Stale(batches[b]) = {}
    /\ flushWaiters = {}

\* C22: over the HttpTransport, whose calls all complete (by the abort of the
\* timeout when the collector never answers), the queue becomes quiescent
\* again and again: every batch ends as succeeded or abandoned (and an ended
\* batch stays ended) and is out of the in-flight set, every network call has
\* completed, and every flush() call has resolved.
C22_Termination == []<>Quiescent

\* a flush() call waits on a batch of two metrics in its second attempt, with
\* one call of the first attempt still open
C22_Witness ==
    /\ sendFn = "sendMetrics"
    /\ \E w \in flushWaiters : \E b \in w.pending :
          /\ batches[b].pc = "sending"
          /\ batches[b].calls = 2
          /\ Cardinality(Stale(batches[b])) = 1

\* C23: between any two steps the buffer holds fewer than batchSize items
\* (batchSize >= 1), so every step that forms a batch leaves the buffer empty,
\* and the buffer never exceeds the threshold.
C23_BufferBelowThreshold ==
    /\ [](Len(queue) < options.batchSize)
    /\ [][Formed # {} => queue' = <<>>]_vars
    /\ [][Len(queue') <= Len(queue) + 1]_vars

\* batchSize 2: add() has formed a batch of two, and one more item is buffered
C23_Witness ==
    /\ options.batchSize = 2
    /\ Len(queue) = 1
    /\ \E b \in DOMAIN batches : batches[b].by = "add" /\ Len(batches[b].items) = 2

\* C24: when a flush() call resolves and no item has been accepted since the
\* call, the buffer is empty and so is the in-flight set (every operation the
\* call awaited has been removed), whatever timer callbacks, destroy() calls
\* or other flush() calls ran during the wait.
C24_FlushLeavesNothingBehind ==
    [][\A w \in flushWaiters :
          (FlushResolve(w) /\ w.accepted = Len(accepted)) =>
              /\ queue = <<>>
              /\ inFlightPromises = {}
              /\ \A i \in 1..w.accepted : \E b \in BatchOf(i) : Terminal(batches[b])]_vars

\* a flush() call is about to resolve with nothing accepted since: the batch
\* it dispatched went through a retry, the timer is still armed
C24_Witness ==
    /\ flushTimer
    /\ queue = <<>>
    /\ \E w \in flushWaiters :
          /\ w.pending = {}
          /\ w.accepted = Len(accepted)
          /\ \E b \in DOMAIN batches :
                /\ batches[b].by = "flush"
                /\ batches[b].pc = "succeeded"
                /\ batches[b].failures >= 1

\* C25: over all attempts of a batch sent through sendMetrics, the collector
\* accepts each item of the batch at most once: no position of the batch
\* gets a second ok response.
C25_ItemAcceptedAtMostOnce_Claimed ==
    sendFn = "sendMetrics" =>
        \A b \in DOMAIN batches : \A k \in DOMAIN batches[b].delivered :
            batches[b].delivered[k] <= 1

\* C26: when sendWithRetry starts the next attempt of a batch sent through
\* sendMetrics, no call of an earlier attempt of that batch is still open.
C26_AttemptsNeverOverlap_Claimed ==
    sendFn = "sendMetrics" =>
        \A b \in DOMAIN batches :
            batches[b].calls >= 2 => Stale(batches[b]) = {}

\* the sequenceNumber field of the log entries that are the given queue items
SequenceNumbers(items) == [p \in DOMAIN items |-> logdash.entries[items[p]].sequenceNumber]

StrictlyIncreasing(seq) == \A p, q \in DOMAIN seq : p < q => seq[p] < seq[q]

\* C27: the root instance and its namespaced instances draw sequence numbers
\* from one core: the entries accepted into the log queue have pairwise
\* distinct numbers, strictly increasing in submission order and all below the
\* counter, and so have the buffer and every batch formed from it.
C27_SequenceNumbersIncrease ==
    /\ Len(logdash.entries) = Len(accepted)
    /\ StrictlyIncreasing(SequenceNumbers(accepted))
    /\ \A i \in DOMAIN logdash.entries :
          logdash.entries[i].sequenceNumber < logdash.sequenceNumber
    /\ StrictlyIncreasing(SequenceNumbers(queue))
    /\ \A b \in DOMAIN batches : StrictlyIncreasing(SequenceNumbers(batches[b].items))

\* the root instance and a namespaced one have each logged an entry and the
\* two went out in one batch, numbered 0 and 1
C27_Witness ==
    \E b \in DOMAIN batches :
        /\ Len(batches[b].items) = 2
        /\ logdash.entries[batches[b].items[1]].namespace
              # logdash.entries[batches[b].items[2]].namespace
        /\ SequenceNumbers(batches[b].items) = <<0, 1>>

====
